---- MODULE Spec2Model ----
(***************************************************************************)
(* Model of fractic-io/rust-aws-s3: the S3Util facade (src/src/util.rs)    *)
(* over an S3BackendImpl (src/src/util/backend.rs), and the paginated      *)
(* list_keys loop of the aws_sdk_s3::Client backend.                       *)
(*                                                                         *)
(* The remote container is the variable `store`.  Every backend call is    *)
(* one step; its outcome is chosen by the service: the faithful outcome    *)
(* for the current contents of the container, or an injected failure       *)
(* (a service error other than the absence one, or a transport failure).   *)
(* A failed backend call leaves the container as it was.                   *)
(***************************************************************************)
EXTENDS Integers, Sequences, FiniteSets, TLC

VARIABLES
    bucket,     \* S3Util.bucket, fixed at construction
    store,      \* contents of the remote containers: bucket -> key -> object
    pc,         \* position of the caller's flow inside a facade operation
    cur,        \* arguments and locals of the operation in progress
    calls,      \* backend calls issued by the current / last facade operation
    result,     \* value returned by the last finished facade operation
    pre,        \* history: the container's contents when the operation started
    touched,    \* history: keys written by other clients since move_object began
    written,    \* history: key -> value last stored by put_serializable
    list_prefix,    \* list_keys: the argument `prefix`
    keys,           \* list_keys: the accumulator `keys`
    continuation_token, \* list_keys: the local `continuation_token`
    requests,   \* list_keys: the page requests sent so far (their tokens)
    served,     \* list_keys: the responses the service gave to them
    lpc,        \* list_keys: position in the loop
    lresult     \* list_keys: the returned Result

vars == <<bucket, store, pc, cur, calls, result, pre, touched, written,
          list_prefix, keys, continuation_token, requests, served, lpc, lresult>>

facadeVars == <<bucket, store, pc, cur, calls, result, pre, touched, written>>
listVars == <<list_prefix, keys, continuation_token, requests, served, lpc, lresult>>

----------------------------------------------------------------------------
(* Bounds *)

MaxInt == 10        \* largest integer stored by put_serializable
MaxLen == 2         \* longest array stored by put_serializable
MaxPages == 3       \* most page requests one listing is followed through

(* Program constant *)
WAIT_FOR_KEY_TIMEOUT == 60

Buckets == {"b1", "b2"}
Keys == {"k1", "k2"}

----------------------------------------------------------------------------
(* serde_json: values, text, and the two conversions                       *)

IntVal(n) == [t |-> "int", n |-> n, xs |-> <<>>]
ListVal(xs) == [t |-> "list", n |-> 0, xs |-> xs]
Unserializable == [t |-> "unserializable", n |-> 0, xs |-> <<>>]
NoValue == [t |-> "none", n |-> 0, xs |-> <<>>]

SampleInts == {0, MaxInt}
\* one array of each length: [], [0], [0,MaxInt], [0,MaxInt,MaxInt], ...
SampleLists == {[i \in 1..l |-> IF i = 1 THEN 0 ELSE MaxInt] : l \in 0..MaxLen}
Values == {IntVal(n) : n \in SampleInts} \cup {ListVal(xs) : xs \in SampleLists}
Types == {"int", "list"}

DigitChars == <<"0", "1", "2", "3", "4", "5", "6", "7", "8", "9">>
IsDigit(c) == \E i \in 1..10 : DigitChars[i] = c
DigitOf(c) == (CHOOSE i \in 1..10 : DigitChars[i] = c) - 1

RECURSIVE IntToChars(_)
IntToChars(n) ==
    IF n < 10 THEN <<DigitChars[n + 1]>>
    ELSE IntToChars(n \div 10) \o <<DigitChars[(n % 10) + 1]>>

RECURSIVE JoinInts(_)
JoinInts(xs) ==
    IF Len(xs) = 0 THEN <<>>
    ELSE IF Len(xs) = 1 THEN IntToChars(xs[1])
    ELSE IntToChars(xs[1]) \o <<",">> \o JoinInts(Tail(xs))

\* serde_json::to_string: Ok with the JSON text, or Err for a value that has
\* no JSON form.
to_string(v) ==
    IF v.t = "int" THEN [ok |-> TRUE, text |-> IntToChars(v.n)]
    ELSE IF v.t = "list" THEN [ok |-> TRUE, text |-> <<"[">> \o JoinInts(v.xs) \o <<"]">>]
    ELSE [ok |-> FALSE, text |-> <<>>]

RECURSIVE CharsToInt(_)
CharsToInt(cs) ==
    IF Len(cs) = 1 THEN DigitOf(cs[1])
    ELSE 10 * CharsToInt(SubSeq(cs, 1, Len(cs) - 1)) + DigitOf(cs[Len(cs)])

\* a JSON number of the integer form: digits, no leading zero
IsIntText(cs) ==
    /\ Len(cs) >= 1
    /\ \A i \in 1..Len(cs) : IsDigit(cs[i])
    /\ (Len(cs) > 1 => cs[1] # "0")

\* position of the first "," in cs, or 0
FirstComma(cs) ==
    IF \E i \in 1..Len(cs) : cs[i] = ","
    THEN CHOOSE i \in 1..Len(cs) : cs[i] = "," /\ \A j \in 1..(i - 1) : cs[j] # ","
    ELSE 0

RECURSIVE ParseElems(_)
ParseElems(cs) ==
    LET c == FirstComma(cs) IN
    IF c = 0 THEN
        IF IsIntText(cs) THEN [ok |-> TRUE, xs |-> <<CharsToInt(cs)>>]
        ELSE [ok |-> FALSE, xs |-> <<>>]
    ELSE
        LET head == SubSeq(cs, 1, c - 1)
            rest == ParseElems(SubSeq(cs, c + 1, Len(cs)))
        IN IF IsIntText(head) /\ rest.ok
           THEN [ok |-> TRUE, xs |-> <<CharsToInt(head)>> \o rest.xs]
           ELSE [ok |-> FALSE, xs |-> <<>>]

\* serde_json::from_slice::<T>: Ok with the value, or Err when the bytes are
\* not JSON or are JSON of another shape than T.
from_slice(T, cs) ==
    IF T = "int" THEN
        IF IsIntText(cs) THEN [ok |-> TRUE, v |-> IntVal(CharsToInt(cs))]
        ELSE [ok |-> FALSE, v |-> NoValue]
    ELSE
        IF Len(cs) >= 2 /\ cs[1] = "[" /\ cs[Len(cs)] = "]" THEN
            LET inner == SubSeq(cs, 2, Len(cs) - 1) IN
            IF Len(inner) = 0 THEN [ok |-> TRUE, v |-> ListVal(<<>>)]
            ELSE LET p == ParseElems(inner) IN
                 IF p.ok THEN [ok |-> TRUE, v |-> ListVal(p.xs)]
                 ELSE [ok |-> FALSE, v |-> NoValue]
        ELSE [ok |-> FALSE, v |-> NoValue]

----------------------------------------------------------------------------
(* Objects of the remote container                                         *)

MetaNone == [some |-> FALSE, map |-> {}]
MetaSome(m) == [some |-> TRUE, map |-> m]
SampleMap == {<<"owner", "x">>}
MetadataArgs == {MetaNone, MetaSome(SampleMap)}

Absent == [present |-> FALSE, body |-> <<>>, metadata |-> MetaNone]
Object(body, metadata) == [present |-> TRUE, body |-> body, metadata |-> metadata]

\* what other clients of the container store: a truncated JSON text, or nothing
OtherObjects == {Absent, Object(<<"[", "1">>, MetaSome(SampleMap))}

\* local files of upload_file: one readable (its bytes are a JSON number),
\* one that cannot be opened
Files == {"seven.json", "missing.json"}
from_path(filename) ==
    IF filename = "seven.json" THEN [ok |-> TRUE, body |-> <<"7">>]
    ELSE [ok |-> FALSE, body |-> <<>>]

EmptyContainer == [k \in Keys |-> Absent]

----------------------------------------------------------------------------
(* S3BackendImpl: the effect of a successful call on the containers, and   *)
(* the outcomes the service can give to a call.                            *)

\* an injected failure of a backend call: a service error other than the
\* absence one, or a failure below the service (dispatch, timeout, response)
Failures == {"ServiceOther", "Transport"}


put_object(s, b, key, body, metadata) ==
    [s EXCEPT ![b][key] = Object(body, metadata)]
put_object_outcomes == {"Ok"} \cup Failures

get_object_outcomes(s, b, key) ==
    (IF s[b][key].present THEN {"Ok"} ELSE {"NoSuchKey"}) \cup Failures

head_object_outcomes(s, b, key) ==
    (IF s[b][key].present THEN {"Ok"} ELSE {"NotFound"}) \cup Failures

copy_object(s, b, source_key, target_key) ==
    [s EXCEPT ![b][target_key] = s[b][source_key]]
copy_object_outcomes(s, b, source_key) ==
    (IF s[b][source_key].present THEN {"Ok"} ELSE {"NoSuchKey"}) \cup Failures

delete_object(s, b, key) == [s EXCEPT ![b][key] = Absent]
delete_object_outcomes == {"Ok"} \cup Failures

\* the waiter polls until the object is there or the timeout has passed
wait_until_object_exists_outcomes(s, b, key, timeout) ==
    (IF s[b][key].present /\ timeout > 0 THEN {"Ok"} ELSE {"ExceededMaxWait"})
        \cup {"OperationFailed"}

\* draining GetObjectOutput.body
collect_outcomes == {"Ok", "ByteStreamError"}

\* a call as the backend saw it, with its outcome; `metadata` is the field of
\* HeadObjectOutput
Call(fn, b, key, target, timeout, outcome) ==
    [fn |-> fn, bucket |-> b, key |-> key, target |-> target,
     timeout |-> timeout, outcome |-> outcome, metadata |-> MetaNone]
HeadCall(b, key, outcome, metadata) ==
    [Call("head_object", b, key, "", 0, outcome) EXCEPT
        !.metadata = IF outcome = "Ok" THEN metadata ELSE MetaNone]

----------------------------------------------------------------------------
(* Results of the facade                                                   *)

Ok == [status |-> "Ok", flag |-> FALSE, value |-> NoValue, metadata |-> MetaNone]
OkBool(f) == [Ok EXCEPT !.flag = f]
OkValue(v) == [Ok EXCEPT !.value = v]
OkMetadata(m) == [Ok EXCEPT !.metadata = m]
Err(kind) == [Ok EXCEPT !.status = kind]
NoResult == Err("none")

NoOp == [op |-> "none", key |-> "", target |-> "", T |-> ""]
Op(op, key, target, T) == [op |-> op, key |-> key, target |-> target, T |-> T]

NoWritten == [k \in Keys |-> NoValue]

----------------------------------------------------------------------------
(* ListObjectsV2: requests and responses                                   *)

NoToken == "<none>"         \* Option<String>::None
Tokens == {"t1", "t2"}
NoKey == "<none>"           \* an Object whose key() is None
Prefixes == {"p/"}

\* the contents of a page: in any order, with repetitions, with key-less objects
PageContents == {<<>>, <<"p/a">>, <<"p/b", "p/a">>, <<"p/a", NoKey, "p/a">>}

\* ListObjectsV2Output, or the SdkError of a failed request
Page(contents, is_truncated, next_continuation_token) ==
    [ok |-> TRUE, contents |-> contents, is_truncated |-> is_truncated,
     next_continuation_token |-> next_continuation_token, err |-> ""]
FailedPage(err) ==
    [ok |-> FALSE, contents |-> <<>>, is_truncated |-> "None",
     next_continuation_token |-> NoToken, err |-> err]
Responses ==
    {Page(c, t, n) : c \in PageContents, t \in {"None", "Some(true)", "Some(false)"},
                     n \in Tokens \cup {NoToken}}
        \cup {FailedPage(e) : e \in Failures}

Request(b, prefix, token) == [bucket |-> b, prefix |-> prefix, continuation_token |-> token]

OkKeys(ks) == [ok |-> TRUE, keys |-> ks, err |-> ""]
ErrKeys(e) == [ok |-> FALSE, keys |-> <<>>, err |-> e]
NoListResult == ErrKeys("none")

----------------------------------------------------------------------------
(* S3Util: how each operation turns the backend's outcome into its result  *)

IsServiceError(oc) == oc \in {"NotFound", "NoSuchKey", "ServiceOther"}

put_serializable_result(oc) ==
    IF oc = "Ok" THEN Ok ELSE Err("S3ConnectionError")

\* oc: outcome of get_object; coc: outcome of draining the body
get_serializable_result(T, oc, coc, body) ==
    IF oc # "Ok" THEN Err("S3NotFound")
    ELSE IF coc # "Ok" THEN Err("S3ConnectionError")
    ELSE LET deserialized == from_slice(T, body) IN
         IF deserialized.ok THEN OkValue(deserialized.v)
         ELSE Err("S3ItemParsingError")

\* a variant that reports every failed head check as absence
key_exists_result_masking(oc) ==
    IF oc = "Ok" THEN OkBool(TRUE) ELSE OkBool(FALSE)

key_exists_result(oc) ==
    IF oc = "Ok" THEN OkBool(TRUE)
    ELSE IF IsServiceError(oc) THEN
        IF oc = "NotFound" THEN OkBool(FALSE) ELSE Err("S3ConnectionError")
    ELSE Err("S3ConnectionError")

unwrap_or_default(metadata) == IF metadata.some THEN metadata.map ELSE {}

get_metadata_if_key_exists_result(oc, metadata) ==
    IF oc = "Ok" THEN OkMetadata(MetaSome(unwrap_or_default(metadata)))
    ELSE IF IsServiceError(oc) THEN
        IF oc = "NotFound" THEN OkMetadata(MetaNone) ELSE Err("S3ConnectionError")
    ELSE Err("S3ConnectionError")

\* a variant that drops the waiter's error
wait_until_key_exists_result_swallow(oc) == Ok

wait_until_key_exists_result(oc) ==
    IF oc = "Ok" THEN Ok ELSE Err("S3ConnectionError")

----------------------------------------------------------------------------
(* S3Util: the operations                                                  *)

Init ==
    /\ bucket \in Buckets
    /\ store = [b \in Buckets |-> EmptyContainer]
    /\ pc = "idle"
    /\ cur = NoOp
    /\ calls = <<>>
    /\ result = NoResult
    /\ pre = EmptyContainer
    /\ touched = {}
    /\ written = NoWritten
    /\ list_prefix = ""
    /\ keys = <<>>
    /\ continuation_token = NoToken
    /\ requests = <<>>
    /\ served = <<>>
    /\ lpc = "idle"
    /\ lresult = NoListResult

\* a variant that leaves an existing object in place
put_serializable_no_overwrite(key, data) ==
    /\ pc = "idle"
    /\ cur' = Op("put_serializable", key, "", data.t)
    /\ pre' = EmptyContainer
    /\ touched' = {}
    /\ LET serialized == to_string(data) IN
       IF ~serialized.ok THEN
           /\ result' = Err("S3InvalidOperation")
           /\ calls' = <<>>
           /\ UNCHANGED <<store, written>>
       ELSE \E oc \in put_object_outcomes :
           /\ calls' = <<Call("put_object", bucket, key, "", 0, oc)>>
           /\ result' = put_serializable_result(oc)
           /\ store' = IF oc = "Ok" /\ ~store[bucket][key].present
                       THEN put_object(store, bucket, key, serialized.text, MetaNone)
                       ELSE store
           /\ written' = IF oc = "Ok" THEN [written EXCEPT ![key] = data] ELSE written
    /\ UNCHANGED <<bucket, pc>>

put_serializable(key, data) ==
    /\ pc = "idle"
    /\ cur' = Op("put_serializable", key, "", data.t)
    /\ pre' = EmptyContainer
    /\ touched' = {}
    /\ LET serialized == to_string(data) IN
       IF ~serialized.ok THEN
           /\ result' = Err("S3InvalidOperation")
           /\ calls' = <<>>
           /\ UNCHANGED <<store, written>>
       ELSE \E oc \in put_object_outcomes :
           /\ calls' = <<Call("put_object", bucket, key, "", 0, oc)>>
           /\ result' = put_serializable_result(oc)
           /\ store' = IF oc = "Ok"
                       THEN put_object(store, bucket, key, serialized.text, MetaNone)
                       ELSE store
           /\ written' = IF oc = "Ok" THEN [written EXCEPT ![key] = data] ELSE written
    /\ UNCHANGED <<bucket, pc>>

get_serializable(key, T) ==
    /\ pc = "idle"
    /\ cur' = Op("get_serializable", key, "", T)
    /\ pre' = EmptyContainer
    /\ touched' = {}
    /\ \E oc \in get_object_outcomes(store, bucket, key), coc \in collect_outcomes :
        /\ oc # "Ok" => coc = "Ok"
        /\ calls' = <<Call("get_object", bucket, key, "", 0, oc),
                      Call("collect", bucket, key, "", 0, coc)>>
        /\ result' = get_serializable_result(T, oc, coc, store[bucket][key].body)
    /\ UNCHANGED <<bucket, store, pc, written>>

upload_file(key, filename, metadata) ==
    /\ pc = "idle"
    /\ cur' = Op("upload_file", key, "", "")
    /\ pre' = EmptyContainer
    /\ touched' = {}
    /\ LET body == from_path(filename) IN
       IF ~body.ok THEN
           /\ result' = Err("S3InvalidOperation")
           /\ calls' = <<>>
           /\ UNCHANGED <<store, written>>
       ELSE \E oc \in put_object_outcomes :
           /\ calls' = <<Call("put_object", bucket, key, "", 0, oc)>>
           /\ result' = IF oc = "Ok" THEN Ok ELSE Err("S3ConnectionError")
           /\ store' = IF oc = "Ok"
                       THEN put_object(store, bucket, key, body.body, metadata)
                       ELSE store
           /\ written' = IF oc = "Ok" THEN [written EXCEPT ![key] = NoValue] ELSE written
    /\ UNCHANGED <<bucket, pc>>

\* a variant that goes on to the delete whatever the copy returned
move_object_copy_ignoring_failure(source_key, target_key) ==
    /\ pc = "idle"
    /\ cur' = Op("move_object", source_key, target_key, "")
    /\ pre' = store[bucket]
    /\ touched' = {}
    /\ \E oc \in copy_object_outcomes(store, bucket, source_key) :
        /\ calls' = <<Call("copy_object", bucket, source_key, target_key, 0, oc)>>
        /\ IF oc = "Ok" THEN
               /\ store' = copy_object(store, bucket, source_key, target_key)
               /\ written' = [written EXCEPT ![target_key] = NoValue]
           ELSE UNCHANGED <<store, written>>
        /\ pc' = "move_delete"
        /\ result' = NoResult
    /\ UNCHANGED bucket

\* move_object up to the end of its first await: the copy
move_object_copy(source_key, target_key) ==
    /\ pc = "idle"
    /\ cur' = Op("move_object", source_key, target_key, "")
    /\ pre' = store[bucket]
    /\ touched' = {}
    /\ \E oc \in copy_object_outcomes(store, bucket, source_key) :
        /\ calls' = <<Call("copy_object", bucket, source_key, target_key, 0, oc)>>
        /\ IF oc = "Ok" THEN
               /\ store' = copy_object(store, bucket, source_key, target_key)
               /\ written' = [written EXCEPT ![target_key] = NoValue]
               /\ pc' = "move_delete"
               /\ result' = NoResult
           ELSE
               /\ pc' = "idle"
               /\ result' = Err("S3ConnectionError")
               /\ UNCHANGED <<store, written>>
    /\ UNCHANGED bucket

\* a variant that undoes the copy when the delete fails
move_object_delete_compensating ==
    /\ pc = "move_delete"
    /\ \E oc \in delete_object_outcomes :
        /\ calls' = Append(calls, Call("delete_object", bucket, cur.key, "", 0, oc))
        /\ IF oc = "Ok" THEN
               /\ store' = delete_object(store, bucket, cur.key)
               /\ written' = [written EXCEPT ![cur.key] = NoValue]
               /\ result' = Ok
           ELSE
               /\ result' = Err("S3ConnectionError")
               /\ store' = delete_object(store, bucket, cur.target)
               /\ written' = [written EXCEPT ![cur.target] = NoValue]
    /\ pc' = "idle"
    /\ UNCHANGED <<bucket, cur, pre, touched>>

\* move_object from the copy's success to its return: the delete
move_object_delete ==
    /\ pc = "move_delete"
    /\ \E oc \in delete_object_outcomes :
        /\ calls' = Append(calls, Call("delete_object", bucket, cur.key, "", 0, oc))
        /\ IF oc = "Ok" THEN
               /\ store' = delete_object(store, bucket, cur.key)
               /\ written' = [written EXCEPT ![cur.key] = NoValue]
               /\ result' = Ok
           ELSE
               /\ result' = Err("S3ConnectionError")
               /\ UNCHANGED <<store, written>>
    /\ pc' = "idle"
    /\ UNCHANGED <<bucket, cur, pre, touched>>

key_exists(key) ==
    /\ pc = "idle"
    /\ cur' = Op("key_exists", key, "", "")
    /\ pre' = EmptyContainer
    /\ touched' = {}
    /\ \E oc \in head_object_outcomes(store, bucket, key) :
        /\ calls' = <<HeadCall(bucket, key, oc, store[bucket][key].metadata)>>
        /\ result' = key_exists_result(oc)
    /\ UNCHANGED <<bucket, store, pc, written>>

get_metadata_if_key_exists(key) ==
    /\ pc = "idle"
    /\ cur' = Op("get_metadata_if_key_exists", key, "", "")
    /\ pre' = EmptyContainer
    /\ touched' = {}
    /\ \E oc \in head_object_outcomes(store, bucket, key) :
        /\ calls' = <<HeadCall(bucket, key, oc, store[bucket][key].metadata)>>
        /\ result' = get_metadata_if_key_exists_result(oc, calls'[1].metadata)
    /\ UNCHANGED <<bucket, store, pc, written>>

\* wait_until_key_exists: the call to the backend's waiter is issued
wait_until_key_exists(key) ==
    /\ pc = "idle"
    /\ cur' = Op("wait_until_key_exists", key, "", "")
    /\ pre' = EmptyContainer
    /\ touched' = {}
    /\ calls' = <<Call("wait_until_object_exists", bucket, key, "",
                       WAIT_FOR_KEY_TIMEOUT, "pending")>>
    /\ result' = NoResult
    /\ pc' = "waiting"
    /\ UNCHANGED <<bucket, store, written>>

\* wait_until_key_exists: the waiter returns, and so does the operation
wait_until_key_exists_return ==
    /\ pc = "waiting"
    /\ \E oc \in wait_until_object_exists_outcomes(store, calls[1].bucket,
                                                   calls[1].key, calls[1].timeout) :
        /\ calls' = <<[calls[1] EXCEPT !.outcome = oc]>>
        /\ result' = wait_until_key_exists_result(oc)
    /\ pc' = "idle"
    /\ UNCHANGED <<bucket, store, cur, pre, touched, written>>

\* another client of the same container stores or deletes an object
other_client(key, obj) ==
    /\ store[bucket][key] # obj
    /\ store' = [store EXCEPT ![bucket][key] = obj]
    /\ touched' = IF cur.op = "move_object" THEN touched \cup {key} ELSE touched
    /\ written' = [written EXCEPT ![key] = NoValue]
    /\ UNCHANGED <<bucket, pc, cur, calls, result, pre>>

Next ==
    /\ \/ \E key \in Keys, data \in Values \cup {Unserializable} : put_serializable(key, data)
       \/ \E key \in Keys, T \in Types : get_serializable(key, T)
       \/ \E key \in Keys, filename \in Files, metadata \in MetadataArgs :
              upload_file(key, filename, metadata)
       \/ \E source_key \in Keys, target_key \in Keys : move_object_copy(source_key, target_key)
       \/ move_object_delete
       \/ \E key \in Keys : key_exists(key)
       \/ \E key \in Keys : get_metadata_if_key_exists(key)
       \/ \E key \in Keys : wait_until_key_exists(key)
       \/ wait_until_key_exists_return
       \/ \E key \in Keys, obj \in OtherObjects : other_client(key, obj)
    /\ UNCHANGED listVars

Spec == Init /\ [][Next]_vars

----------------------------------------------------------------------------
(* list_keys of the aws_sdk_s3::Client backend                             *)

\* keys.extend(objects.iter().filter_map(|obj| obj.key()...))
RECURSIVE filter_map_key(_)
filter_map_key(objects) ==
    IF Len(objects) = 0 THEN <<>>
    ELSE IF Head(objects) = NoKey THEN filter_map_key(Tail(objects))
    ELSE <<Head(objects)>> \o filter_map_key(Tail(objects))

\* a variant that keeps only the page just received
extend_replacing(ks, objects) == filter_map_key(objects)

extend(ks, objects) == ks \o filter_map_key(objects)

\* a variant that follows every token, whatever the truncation flag says
should_continue_on_token(response) ==
    response.next_continuation_token # NoToken

\* response.is_truncated().unwrap_or(false), and then the `if let Some`
should_continue(response) ==
    /\ response.is_truncated = "Some(true)"
    /\ response.next_continuation_token # NoToken

\* a listing starts from a constructed client; the facade is not involved
InitList == Init

list_keys_start(prefix) ==
    /\ lpc \in {"idle", "done"}
    /\ keys' = <<>>
    /\ continuation_token' = NoToken
    /\ requests' = <<>>
    /\ served' = <<>>
    /\ lpc' = "loop"
    /\ lresult' = NoListResult
    /\ list_prefix' = prefix

\* a variant that returns what it has when a page request fails
list_keys_request_partial ==
    /\ lpc = "loop"
    /\ Len(requests) < MaxPages
    /\ requests' = Append(requests, Request(bucket, list_prefix, continuation_token))
    /\ \E response \in Responses :
        /\ served' = Append(served, response)
        /\ IF ~response.ok THEN
               /\ lresult' = OkKeys(keys)
               /\ lpc' = "done"
               /\ UNCHANGED <<keys, continuation_token>>
           ELSE
               /\ keys' = extend(keys, response.contents)
               /\ IF should_continue(response) THEN
                      /\ continuation_token' = response.next_continuation_token
                      /\ lpc' = "loop"
                      /\ UNCHANGED lresult
                  ELSE
                      /\ lpc' = "done"
                      /\ lresult' = OkKeys(keys')
                      /\ UNCHANGED continuation_token
    /\ UNCHANGED list_prefix

\* one turn of the loop: send the request, await the response, extend the
\* accumulator, and go round again or return
list_keys_request ==
    /\ lpc = "loop"
    /\ Len(requests) < MaxPages
    /\ requests' = Append(requests, Request(bucket, list_prefix, continuation_token))
    /\ \E response \in Responses :
        /\ served' = Append(served, response)
        /\ IF ~response.ok THEN
               /\ lresult' = ErrKeys(response.err)
               /\ lpc' = "done"
               /\ UNCHANGED <<keys, continuation_token>>
           ELSE
               /\ keys' = extend(keys, response.contents)
               /\ IF should_continue(response) THEN
                      /\ continuation_token' = response.next_continuation_token
                      /\ lpc' = "loop"
                      /\ UNCHANGED lresult
                  ELSE
                      /\ lpc' = "done"
                      /\ lresult' = OkKeys(keys')
                      /\ UNCHANGED continuation_token
    /\ UNCHANGED list_prefix

NextList ==
    /\ \/ \E prefix \in Prefixes : list_keys_start(prefix)
       \/ list_keys_request
    /\ UNCHANGED facadeVars

SpecList == InitList /\ [][NextList]_vars

\* every page request sent is answered (with a page or an error), after which
\* the loop takes its next turn
SpecListFair == SpecList /\ WF_vars(list_keys_request /\ UNCHANGED facadeVars)

----------------------------------------------------------------------------
(* Properties of the facade, stated of Spec                                *)

Returned(op) == pc = "idle" /\ cur.op = op
Undisturbed(ks) == touched \cap ks = {}

\* C1: get_serializable fails with Not-Found exactly when get_object reports
\* the key absent; every other failure of get_object or of draining the body
\* is a Callout Failure (S3ConnectionError); a fetched body that does not
\* deserialize is an Item Parsing Failure.
C1_GetSerializableFailureKinds ==
    Returned("get_serializable") =>
        LET oc == calls[1].outcome
            coc == calls[2].outcome
        IN /\ (result.status = "S3NotFound") <=> (oc = "NoSuchKey")
           /\ (oc \in Failures \/ coc # "Ok") => result.status = "S3ConnectionError"
           /\ result.status \in {"Ok", "S3NotFound", "S3ConnectionError",
                                 "S3ItemParsingError"}

\* C2: key_exists returns Ok(false), and get_metadata_if_key_exists Ok(None),
\* exactly when head_object reports the service-level not-found; Ok(true),
\* resp. Ok(Some(metadata of the head output, empty if it has none)), exactly
\* when head_object succeeds; for every other outcome of head_object the
\* result is a Callout Failure (S3ConnectionError).
C2_HeadOutcomeClassified ==
    (pc = "idle" /\ cur.op \in {"key_exists", "get_metadata_if_key_exists"}) =>
        /\ Len(calls) = 1
        /\ calls[1].fn = "head_object"
        /\ calls[1].bucket = bucket
        /\ calls[1].key = cur.key
        /\ LET oc == calls[1].outcome IN
           /\ (oc \notin {"Ok", "NotFound"}) <=> (result.status = "S3ConnectionError")
           /\ result.status \in {"Ok", "S3ConnectionError"}
           /\ cur.op = "key_exists" =>
                /\ (result.status = "Ok" /\ ~result.flag) <=> (oc = "NotFound")
                /\ (result.status = "Ok" /\ result.flag) <=> (oc = "Ok")
           /\ cur.op = "get_metadata_if_key_exists" =>
                /\ (result.status = "Ok" /\ ~result.metadata.some) <=> (oc = "NotFound")
                /\ (result.status = "Ok" /\ result.metadata.some) <=> (oc = "Ok")
                /\ oc = "Ok" =>
                     result.metadata.map =
                        (IF calls[1].metadata.some THEN calls[1].metadata.map ELSE {})

\* C2 witness: a head check of a present key failed below the service and
\* key_exists reported the failure, not `false`.
C2_Witness ==
    /\ Returned("key_exists")
    /\ calls[1].outcome = "Transport"
    /\ store[bucket][cur.key].present
    /\ result.status = "S3ConnectionError"

\* C3: when move_object(a, b) returns success, a existed before the call and
\* no other client wrote a or b meanwhile, then b exists, a does not, and b
\* holds what a held before the call.
C3_MoveSuccessPostcondition ==
    (/\ Returned("move_object")
     /\ result.status = "Ok"
     /\ pre[cur.key].present
     /\ Undisturbed({cur.key, cur.target})) =>
        /\ store[bucket][cur.target].present
        /\ ~store[bucket][cur.key].present
        /\ store[bucket][cur.target] = pre[cur.key]

\* C4: when the copy of move_object(a, b) succeeds and the delete of a fails,
\* move_object returns a Callout Failure, has issued the copy and the one
\* delete and nothing else, and (no other client having written a or b) both
\* a and b exist and hold what a held.
C4_DeleteFailureLeavesBoth ==
    (/\ Returned("move_object")
     /\ Len(calls) >= 2
     /\ calls[2].outcome # "Ok") =>
        /\ result.status = "S3ConnectionError"
        /\ Len(calls) = 2
        /\ calls[1].fn = "copy_object" /\ calls[1].outcome = "Ok"
        /\ calls[2].fn = "delete_object" /\ calls[2].key = cur.key
        /\ Undisturbed({cur.key, cur.target}) =>
             /\ store[bucket][cur.key].present
             /\ store[bucket][cur.target].present
             /\ store[bucket][cur.key] = pre[cur.key]
             /\ store[bucket][cur.target] = pre[cur.key]

\* C4 witness: a move between two different keys whose delete failed, the
\* target having been absent before.
C4_Witness ==
    /\ Returned("move_object")
    /\ cur.key # cur.target
    /\ Len(calls) = 2
    /\ calls[2].outcome = "Transport"
    /\ ~pre[cur.target].present
    /\ Undisturbed({cur.key, cur.target})
    /\ store[bucket][cur.target].present
    /\ result.status = "S3ConnectionError"

C8_WaitDelegatesOnce ==
    (cur.op = "wait_until_key_exists") =>
        /\ Len(calls) = 1
        /\ calls[1].fn = "wait_until_object_exists"
        /\ calls[1].bucket = bucket
        /\ calls[1].key = cur.key
        /\ calls[1].timeout = 60
        /\ pc = "idle" =>
             /\ (result.status = "Ok") <=> (calls[1].outcome = "Ok")
             /\ (calls[1].outcome # "Ok") <=> (result.status = "S3ConnectionError")

\* C8 witness: the object did not appear and the wait expired.
C8_Witness ==
    /\ Returned("wait_until_key_exists")
    /\ ~store[bucket][cur.key].present
    /\ calls[1].outcome = "ExceededMaxWait"
    /\ result.status = "S3ConnectionError"

\* C9: move_object issues the copy first; the delete is issued only once
\* the copy has returned Ok, and never otherwise; after a failed copy the
\* operation has returned a failure and (no other client having written a)
\* a is as it was before the call.
C9_CopyThenDelete ==
    (cur.op = "move_object") =>
        /\ Len(calls) \in {1, 2}
        /\ calls[1].fn = "copy_object"
        /\ calls[1].key = cur.key /\ calls[1].target = cur.target
        /\ pc = "move_delete" => (Len(calls) = 1 /\ calls[1].outcome = "Ok")
        /\ Len(calls) = 2 =>
             /\ calls[1].outcome = "Ok"
             /\ calls[2].fn = "delete_object"
             /\ calls[2].key = cur.key
        /\ calls[1].outcome # "Ok" =>
             /\ Len(calls) = 1
             /\ pc = "idle"
             /\ result.status = "S3ConnectionError"
             /\ Undisturbed({cur.key}) => store[bucket][cur.key] = pre[cur.key]

\* C9 witness: the copy of an existing object failed; the object is still
\* there and no delete was issued.
C9_Witness ==
    /\ Returned("move_object")
    /\ calls[1].outcome = "Transport"
    /\ Len(calls) = 1
    /\ pre[cur.key].present
    /\ store[bucket][cur.key].present

----------------------------------------------------------------------------
(* Properties of list_keys, stated of SpecList and SpecListFair            *)

KeysOf(page) == SelectSeq(page.contents, LAMBDA o : o # NoKey)

RECURSIVE ConcatKeys(_)
ConcatKeys(pages) ==
    IF Len(pages) = 0 THEN <<>>
    ELSE ConcatKeys(SubSeq(pages, 1, Len(pages) - 1)) \o KeysOf(pages[Len(pages)])

Continues(page) ==
    page.ok /\ page.is_truncated = "Some(true)" /\ page.next_continuation_token # NoToken

\* C6: a listing that returns Ok returns the keys of all the pages served,
\* page after page and in the order within each page; one request was sent
\* per page served; the first request carries no continuation token and
\* request n+1 carries the token page n returned.
C6_ListingConcatenatesPages ==
    /\ Len(requests) = Len(served)
    /\ Len(requests) >= 1 => requests[1].continuation_token = NoToken
    /\ \A n \in 1..(Len(requests) - 1) :
          requests[n + 1].continuation_token = served[n].next_continuation_token
    /\ \A n \in 1..Len(requests) :
          requests[n].bucket = bucket /\ requests[n].prefix = list_prefix
    /\ (lpc = "loop" /\ \A n \in 1..Len(served) : served[n].ok) =>
          keys = ConcatKeys(served)
    /\ (lpc = "done" /\ lresult.ok) =>
          /\ lresult.keys = ConcatKeys(served)
          /\ Len(requests) = Cardinality({n \in 1..Len(served) : Continues(served[n])}) + 1

\* C6 witness: a listing of three pages returned five keys, a repetition
\* among them, a key-less object having been skipped.
C6_Witness ==
    /\ lpc = "done"
    /\ lresult.ok
    /\ Len(served) = 3
    /\ served[1].contents = <<"p/b", "p/a">>
    /\ served[2].contents = <<"p/a", NoKey, "p/a">>
    /\ served[3].contents = <<"p/a">>
    /\ lresult.keys = <<"p/b", "p/a", "p/a", "p/a", "p/a">>

\* C7: a failed page request ends the listing: it is the last request sent,
\* the listing returns Err with that request's error and no keys, whatever
\* the earlier pages held.
C7_FailedPageFailsListing ==
    \A n \in 1..Len(served) :
        ~served[n].ok =>
            /\ n = Len(served)
            /\ Len(requests) = n
            /\ lpc = "done"
            /\ ~lresult.ok
            /\ lresult.err = served[n].err
            /\ lresult.keys = <<>>

\* C7 witness: the second page request failed after the first page had put
\* keys in the accumulator.
C7_Witness ==
    /\ lpc = "done"
    /\ Len(served) = 2
    /\ ~served[2].ok
    /\ keys # <<>>
    /\ ~lresult.ok
    /\ lresult.keys = <<>>

PageDecides ==
    \A n \in 1..Len(served) :
        /\ (n < Len(served) \/ lpc = "loop") <=>
              (/\ served[n].ok
               /\ served[n].is_truncated = "Some(true)"
               /\ served[n].next_continuation_token # NoToken)
        /\ (served[n].ok /\ n = Len(served) /\ lpc # "loop") =>
              (lpc = "done" /\ lresult.ok)

\* C10: after a page, another request follows exactly when the page is
\* marked truncated and carries a next-page token; every other page
\* (truncated without a token, not truncated, flag missing) ends the
\* listing with Ok; and a listing in its loop returns, unless the service
\* keeps serving truncated pages with tokens up to the MaxPages-th request.
C10_ContinueIffTruncatedAndToken ==
    /\ []PageDecides
    /\ (lpc = "loop") ~> (lpc = "done" \/ Len(requests) >= MaxPages)

\* C10 witness: a first page marked truncated without a token ended the
\* listing after one request.
C10_Witness ==
    /\ lpc = "done"
    /\ Len(requests) = 1
    /\ served[1].ok
    /\ served[1].is_truncated = "Some(true)"
    /\ served[1].next_continuation_token = NoToken
    /\ lresult.ok

====
